---- MODULE Spec2Model ----
(***************************************************************************)
(* ImageCompressor (image_comp.py): a directory tree is scanned for image  *)
(* files, each candidate is re-encoded to <path>.tmp and the original is   *)
(* replaced only when the encoded file is strictly smaller.                *)
(*                                                                         *)
(* The filesystem is a function from paths to files; a file is its size    *)
(* and a tag telling the original bytes ("orig") from the bytes written by *)
(* an encoder ("enc").  The codec library (PIL) is the environment: what   *)
(* decoding, flattening and encoding do to one file is an input of the     *)
(* step that processes it.  Nothing but the program changes the tree while *)
(* it runs.                                                                *)
(***************************************************************************)
EXTENDS Integers, Sequences, FiniteSets, TLC

\* ------------------------------------------------------------- bounds
MaxFiles == 2      \* files under the root
MaxSize  == 2      \* largest size of a file before the run, in bytes

\* ------------------------------------------------------------- strings
Char(s, i) == SubSeq(s, i, i)

UpperLetters ==
    {"A", "B", "C", "D", "E", "F", "G", "H", "I", "J", "K", "L", "M",
     "N", "O", "P", "Q", "R", "S", "T", "U", "V", "W", "X", "Y", "Z"}

\* str.lower() on one character
LowerChar(c) ==
    IF c \notin UpperLetters THEN c ELSE
    CASE c = "A" -> "a"
      [] c = "B" -> "b"
      [] c = "C" -> "c"
      [] c = "D" -> "d"
      [] c = "E" -> "e"
      [] c = "F" -> "f"
      [] c = "G" -> "g"
      [] c = "H" -> "h"
      [] c = "I" -> "i"
      [] c = "J" -> "j"
      [] c = "K" -> "k"
      [] c = "L" -> "l"
      [] c = "M" -> "m"
      [] c = "N" -> "n"
      [] c = "O" -> "o"
      [] c = "P" -> "p"
      [] c = "Q" -> "q"
      [] c = "R" -> "r"
      [] c = "S" -> "s"
      [] c = "T" -> "t"
      [] c = "U" -> "u"
      [] c = "V" -> "v"
      [] c = "W" -> "w"
      [] c = "X" -> "x"
      [] c = "Y" -> "y"
      [] c = "Z" -> "z"

RECURSIVE lower(_)
lower(s) == IF Len(s) = 0 THEN "" ELSE LowerChar(Char(s, 1)) \o lower(SubSeq(s, 2, Len(s)))

\* str.endswith(suffix)
endswith(s, suffix) ==
    /\ Len(suffix) <= Len(s)
    /\ SubSeq(s, Len(s) - Len(suffix) + 1, Len(s)) = suffix

\* s[-n:]
LastChars(s, n) == IF n >= Len(s) THEN s ELSE SubSeq(s, Len(s) - n + 1, Len(s))

\* str.rfind(c): the last index of c in s (1-based), 0 when absent
rfind(s, c) ==
    LET hits == {k \in 1..Len(s) : Char(s, k) = c}
    IN  IF hits = {} THEN 0 ELSE CHOOSE k \in hits : \A j \in hits : j <= k

\* PurePath.name: the last component of a path
PathName(p) == SubSeq(p, rfind(p, "/") + 1, Len(p))

\* PurePath.suffix: from the last dot of the name on, unless the dot is the
\* first or the last character of the name
PathSuffix(p) ==
    LET name == PathName(p)
        i    == rfind(name, ".")
    IN  IF 1 < i /\ i < Len(name) THEN SubSeq(name, i, Len(name)) ELSE ""

\* ------------------------------------------------------------- constants
JpgCompoundLen == 9
PngCompoundLen == 8
DefaultQuality == 85
JpegQuality    == 85
PngQuality     == 95
WebpQuality    == 85
AvifQuality    == 80

supported_formats == {".jpg", ".jpeg", ".png", ".webp", ".avif"}

quality_mapping ==
    [e \in supported_formats |->
        CASE e = ".jpg"  -> JpegQuality
          [] e = ".jpeg" -> JpegQuality
          [] e = ".png"  -> PngQuality
          [] e = ".webp" -> WebpQuality
          [] e = ".avif" -> AvifQuality]

\* dict.get(ext, 85)
QualityOf(ext) == IF ext \in DOMAIN quality_mapping THEN quality_mapping[ext] ELSE DefaultQuality

InitialStats ==
    [total_files |-> 0, compressed |-> 0, failed |-> 0,
     original_size |-> 0, compressed_size |-> 0]

\* ------------------------------------------------------------- get_extension, is_image
get_extension(filename) ==
    LET name == lower(filename)
    IN  IF endswith(name, ".jpg.avif") \/ endswith(name, ".jpg.webp")
        THEN LastChars(name, JpgCompoundLen)
        ELSE IF endswith(name, ".png.webp") \/ endswith(name, ".png.avif")
        THEN LastChars(name, PngCompoundLen)
        ELSE PathSuffix(name)


\* ------------------------------------------------------------- filesystem
Dir == "d/"

\* the file names a tree is drawn from: two encoder branches (one name in
\* upper case), the suffix with no encoder, the four compound suffixes, and a
\* temporary file left by an earlier run
Names ==
    {"a.jpg", "C.PNG", "e.avif",
     "f.jpg.avif", "g.jpg.webp", "h.png.webp", "i.png.avif",
     "a.jpg.tmp"}

Paths == {Dir \o n : n \in Names}

\* get_extension, tabulated over the names and paths of the model
extension_of == [p \in Names \cup Paths |-> get_extension(p)]

is_image_compound(filename) ==
    extension_of[filename] \in supported_formats \cup {".jpg.avif", "png.avif"}

is_image(filename) == extension_of[filename] \in supported_formats

NoPath == ""

\* the logical extension of a call that raised before computing it
NotComputed == "<not computed>"

OrigFile(n) == [size |-> n, data |-> "orig"]
EncFile(n)  == [size |-> n, data |-> "enc"]

\* os.path.exists
exists(fsys, p) == p \in DOMAIN fsys

\* os.path.getsize
getsize(fsys, p) == fsys[p].size

\* create or overwrite p
WriteFile(fsys, p, f) == [q \in DOMAIN fsys \cup {p} |-> IF q = p THEN f ELSE fsys[q]]

\* os.remove
remove(fsys, p) == [q \in DOMAIN fsys \ {p} |-> fsys[q]]

\* shutil.move(src, dst): dst takes the content of src, src disappears
move(fsys, src, dst) == remove(WriteFile(fsys, dst, fsys[src]), src)

\* the trees under a root directory: at most MaxFiles files with distinct
\* names, each with its size
Trees ==
    UNION {[{Dir \o n : n \in S} -> {OrigFile(n) : n \in 0..MaxSize}] :
              S \in {T \in SUBSET Names : Cardinality(T) <= MaxFiles}}

EmptyTree == [p \in {} |-> OrigFile(0)]

\* the orders in which rglob may yield the paths of S
Enumerations(S) ==
    {e \in [1..Cardinality(S) -> S] : \A m, n \in 1..Cardinality(S) : e[m] = e[n] => m = n}

\* ------------------------------------------------------------- the codec library
\* What PIL does with one file: the step that raises ("none" when no step
\* does), the mode of the decoded image, whether a failing save had already
\* created the output file, and the size of the encoded output.
FlattenModes == {"RGBA", "LA", "P"}
Modes == {"RGB", "RGBA"}

Outcome(e, m, w, n) == [err |-> e, mode |-> m, wrote |-> w, size |-> n]

\* Image.open identifies no image in a file of 0 bytes: it raises.  A file
\* with content may decode or raise, at open or (lazily) later.
Outcomes(f) ==
    {Outcome("decode", "RGB", FALSE, 0)}
    \cup (IF f.size = 0 THEN {}
          ELSE {Outcome("flatten", m, FALSE, 0) : m \in Modes \cap FlattenModes}
               \cup {Outcome("encode", "RGB", w, 0) : w \in BOOLEAN}
               \cup {Outcome("none", m, TRUE, n) : m \in Modes, n \in 1..(MaxSize + 1)})

\* ------------------------------------------------------------- compress_image
\* the encoder switch
EncoderAvifToo(ext) ==
    CASE ext \in {".jpg", ".jpeg"}            -> "JPEG"
      [] ext = ".png"                         -> "PNG"
      [] ext = ".webp"                        -> "WEBP"
      [] ext \in {".jpg.avif", ".png.avif", ".avif"} -> "AVIF"
      [] OTHER                                -> "none"

Encoder(ext) ==
    CASE ext \in {".jpg", ".jpeg"}            -> "JPEG"
      [] ext = ".png"                         -> "PNG"
      [] ext = ".webp"                        -> "WEBP"
      [] ext \in {".jpg.avif", ".png.avif"}   -> "AVIF"
      [] OTHER                                -> "none"

\* the test that decides the replacement
ShouldReplaceOrEqual(compressed_size, original_size) == compressed_size <= original_size

ShouldReplace(compressed_size, original_size) == compressed_size < original_size

\* what a replaced file adds to stats.compressed_size
ReplacedCountsOriginal(compressed_size, original_size) == original_size

ReplacedCounts(compressed_size, original_size) == compressed_size

\* what a file that was not replaced adds to stats.compressed_size
KeptCountsCompressed(compressed_size, original_size) == compressed_size

KeptCounts(compressed_size, original_size) == original_size

\* the except clause: remove the temporary file when its path is set and exists
ExceptHandlerKeepsTemp(fsys, temp_path) == fsys

ExceptHandler(fsys, temp_path) ==
    IF temp_path # NoPath /\ exists(fsys, temp_path) THEN remove(fsys, temp_path) ELSE fsys

Returned(fsys, st, value, didRaise, ext, enc) ==
    [fs |-> fsys, stats |-> st, ret |-> value, raised |-> didRaise,
     ext |-> ext, encoder |-> enc,
     quality |-> IF ext = NotComputed THEN 0 ELSE QualityOf(ext)]

compress_image(fsys, st, image_path, o) ==
    LET original_size   == getsize(fsys, image_path)
        ext             == extension_of[image_path]
        temp_path       == image_path \o ".tmp"
        enc             == Encoder(ext)
        saved           == WriteFile(fsys, temp_path, EncFile(o.size))
        partial         == IF o.wrote THEN WriteFile(fsys, temp_path, EncFile(0)) ELSE fsys
        compressed_size == getsize(saved, temp_path)
    IN  IF o.err = "decode" \/ (o.err = "flatten" /\ o.mode \in FlattenModes)
        THEN Returned(ExceptHandler(fsys, NoPath), st, FALSE, TRUE, NotComputed, "none")
        ELSE IF enc = "none"
        THEN Returned(fsys, st, FALSE, FALSE, ext, enc)
        ELSE IF o.err = "encode"
        THEN Returned(ExceptHandler(partial, temp_path), st, FALSE, TRUE, ext, enc)
        ELSE IF ShouldReplace(compressed_size, original_size)
        THEN Returned(move(saved, temp_path, image_path),
                      [st EXCEPT !.compressed_size =
                           @ + ReplacedCounts(compressed_size, original_size)],
                      TRUE, FALSE, ext, enc)
        ELSE Returned(remove(saved, temp_path),
                      [st EXCEPT !.compressed_size =
                           @ + KeptCounts(compressed_size, original_size)],
                      TRUE, FALSE, ext, enc)

\* ------------------------------------------------------------- state
VARIABLES
    folder,       \* what folder_path names: "missing", "file" or "dir"
    fs,           \* the filesystem under the root: path -> file
    fs0,          \* the filesystem before the run
    image_files,  \* the candidate list of process_folder
    i,            \* candidates handled so far
    stats,        \* self.stats
    pc,           \* "start", "loop", "returned", "raised", "direct", "called"
    ret,          \* what process_folder returned
    out,          \* the message of an early return
    calls         \* the calls of compress_image so far, in order

vars == <<folder, fs, fs0, image_files, i, stats, pc, ret, out, calls>>

RootKinds == {"missing", "file", "dir"}

Call(path, r, counted) ==
    [path |-> path, ext |-> r.ext, encoder |-> r.encoder, quality |-> r.quality,
     ret |-> r.ret,
     raised |-> r.raised, counted |-> counted]

InitCommon(t) ==
    /\ fs = t
    /\ fs0 = t
    /\ image_files = <<>>
    /\ i = 0
    /\ stats = InitialStats
    /\ ret = "none"
    /\ out = "none"
    /\ calls = <<>>

Init ==
    \E k \in RootKinds, t \in Trees :
        /\ folder = k
        /\ k # "dir" => t = EmptyTree
        /\ pc = "start"
        /\ InitCommon(t)

\* ------------------------------------------------------------- process_folder
\* the files the list comprehension over rglob('*') keeps; rglob yields
\* nothing when the root is not a directory
Candidates(k, fsys) ==
    IF k # "dir" THEN {} ELSE {p \in DOMAIN fsys : is_image(PathName(p))}

\* if not self.folder_path.exists(): return False
DirectoryMissing ==
    /\ pc = "start"
    /\ folder = "missing"
    /\ out' = "no_dir"
    /\ ret' = FALSE
    /\ pc' = "returned"
    /\ UNCHANGED <<folder, fs, fs0, image_files, i, stats, calls>>

\* if not image_files: return False
NoImages ==
    /\ pc = "start"
    /\ folder # "missing"
    /\ Candidates(folder, fs) = {}
    /\ out' = "no_images"
    /\ ret' = FALSE
    /\ pc' = "returned"
    /\ UNCHANGED <<folder, fs, fs0, image_files, i, stats, calls>>

StartLoop ==
    /\ pc = "start"
    /\ folder # "missing"
    /\ Candidates(folder, fs) # {}
    /\ \E e \in Enumerations(Candidates(folder, fs)) :
         /\ image_files' = e
         /\ stats' = [stats EXCEPT !.total_files = Len(e)]
    /\ pc' = "loop"
    /\ UNCHANGED <<folder, fs, fs0, i, ret, out, calls>>

\* the if/else on the result of compress_image
CountResultDropsFailed(st, ok) ==
    IF ok THEN [st EXCEPT !.compressed = @ + 1] ELSE st

CountResult(st, ok) ==
    IF ok THEN [st EXCEPT !.compressed = @ + 1] ELSE [st EXCEPT !.failed = @ + 1]

\* the candidate of the n-th iteration
CandidateFirst(files, n) == files[1]

Candidate(files, n) == files[n]

\* one iteration of the loop; the division on line 117 raises
\* ZeroDivisionError when the original size is 0
ProcessFile ==
    /\ pc = "loop"
    /\ i < Len(image_files)
    /\ LET image_path    == Candidate(image_files, i + 1)
           original_size == getsize(fs, image_path)
           st1           == [stats EXCEPT !.original_size = @ + original_size]
       IN  \E o \in Outcomes(fs[image_path]) :
             LET r    == compress_image(fs, st1, image_path, o)
                 zero == r.ret /\ original_size = 0
             IN  /\ fs' = r.fs
                 /\ stats' = IF zero THEN r.stats ELSE CountResult(r.stats, r.ret)
                 /\ pc' = IF zero THEN "raised" ELSE "loop"
                 /\ i' = i + 1
                 /\ calls' = Append(calls,
                        Call(image_path, r,
                             IF zero THEN "none" ELSE IF r.ret THEN "compressed" ELSE "failed"))
    /\ UNCHANGED <<folder, fs0, image_files, ret, out>>

\* the loop is exhausted: return True
FinishLoop ==
    /\ pc = "loop"
    /\ i = Len(image_files)
    /\ ret' = TRUE
    /\ pc' = "returned"
    /\ UNCHANGED <<folder, fs, fs0, image_files, i, stats, out, calls>>

\* print_summary: the saved-bytes figure
saved(st) == st.original_size - st.compressed_size

Next ==
    \/ DirectoryMissing
    \/ NoImages
    \/ StartLoop
    \/ ProcessFile
    \/ FinishLoop

Spec == Init /\ [][Next]_vars

\* the program is sequential and runs on: a loop iteration that can run does
\* run, and so does the return that follows the loop
FairSpec == Spec /\ WF_vars(ProcessFile) /\ WF_vars(FinishLoop)

\* ------------------------------------------------------------- compress_image called directly
InitDirect ==
    \E t \in Trees :
        /\ folder = "dir"
        /\ pc = "direct"
        /\ InitCommon(t)

CallCompress ==
    /\ pc = "direct"
    /\ \E p \in DOMAIN fs : \E o \in Outcomes(fs[p]) :
         LET r == compress_image(fs, stats, p, o)
         IN  /\ fs' = r.fs
             /\ stats' = r.stats
             /\ calls' = Append(calls, Call(p, r, "none"))
    /\ pc' = "called"
    /\ UNCHANGED <<folder, fs0, image_files, i, ret, out>>

NextDirect == CallCompress

SpecDirect == InitDirect /\ [][NextDirect]_vars

\* ------------------------------------------------------------- properties
temp_of(p) == p \o ".tmp"

CallIds == 1..Len(calls)

\* the file at p now holds an encoder's output, strictly smaller than before
Replaced(p) == exists(fs, p) /\ fs[p].data = "enc" /\ fs[p].size < fs0[p].size

\* the file at p is what it was before the run
Untouched(p) == exists(fs, p) /\ fs[p] = fs0[p]

\* no file appeared at the temporary path of p
NoTempCreated(p) ==
    exists(fs, temp_of(p)) => exists(fs0, temp_of(p)) /\ fs[temp_of(p)] = fs0[temp_of(p)]

RECURSIVE SumOver(_, _)
SumOver(f, S) ==
    IF S = {} THEN 0
    ELSE LET p == CHOOSE q \in S : TRUE IN f[p].size + SumOver(f, S \ {p})

Range(seq) == {seq[k] : k \in 1..Len(seq)}

\* C1: every candidate handed to compress_image is afterwards either replaced
\* by a strictly smaller encoded version or byte-identical to the original,
\* never both, and never larger than before.
C1_ReplacedSmallerOrUntouched ==
    \A k \in CallIds :
        LET p == calls[k].path
        IN  extension_of[p] \in supported_formats =>
              /\ Replaced(p) # Untouched(p)
              /\ fs[p].size <= fs0[p].size

C1_Witness ==
    /\ \E k \in CallIds : Replaced(calls[k].path)
    /\ \E k \in CallIds : calls[k].ret /\ Untouched(calls[k].path)

C3_CompressedSizeAtMostOriginal ==
    /\ stats.compressed_size <= stats.original_size
    /\ saved(stats) >= 0

C3_Witness ==
    /\ pc = "returned"
    /\ ret = TRUE
    /\ stats.failed > 0
    /\ \E k \in CallIds : calls[k].ret /\ Untouched(calls[k].path)
    /\ stats.compressed_size > 0

\* C4 (as claimed): when the root path does not exist or is not a directory,
\* process_folder reports "directory does not exist", calls compress_image on
\* nothing, changes no file and leaves stats at its initial value.
C4_NotADirectoryReported ==
    (pc = "returned" /\ folder # "dir") =>
        /\ out = "no_dir"
        /\ calls = <<>>
        /\ fs = fs0
        /\ stats = InitialStats

\* C5: once the scan found candidates, process_folder reaches its end
\* returning True, having called compress_image exactly once on each candidate
\* in list order; nothing is raised out of the loop.
C5_LoopRunsToTheEnd ==
    (pc = "loop") ~>
        (/\ pc = "returned"
         /\ ret = TRUE
         /\ [k \in CallIds |-> calls[k].path] = image_files)

C5_Witness ==
    /\ pc = "returned"
    /\ ret = TRUE
    /\ \E k \in CallIds : calls[k].raised /\ fs0[calls[k].path].size = 0
    /\ \E k \in CallIds : ~calls[k].raised /\ ~calls[k].ret

\* the logical extensions the encoder switch of compress_image tests for
SwitchExtensions == {".jpg", ".jpeg", ".png", ".webp", ".jpg.avif", ".png.avif"}

\* C6 (as claimed): a file that reaches the encoder switch with a logical
\* extension selecting no encoder is left unchanged, gets no temporary file,
\* and is not counted in stats.failed.
C6_UnsupportedNotCountedFailed ==
    \A k \in CallIds :
        (~calls[k].raised /\ extension_of[calls[k].path] \notin SwitchExtensions) =>
            /\ Untouched(calls[k].path)
            /\ NoTempCreated(calls[k].path)
            /\ calls[k].counted # "failed"

\* C6 (amended): a file whose logical extension selects no encoder is left
\* unchanged and gets no temporary file, and process_folder counts it in
\* stats.failed.
C6_UnsupportedCountedFailed ==
    \A k \in CallIds :
        extension_of[calls[k].path] \notin SwitchExtensions =>
            /\ Untouched(calls[k].path)
            /\ NoTempCreated(calls[k].path)
            /\ calls[k].counted = "failed"
            /\ stats.failed >= 1

C6_Witness ==
    \E k \in CallIds :
        /\ calls[k].ext = ".avif"
        /\ ~calls[k].raised
        /\ calls[k].counted = "failed"

\* C7 (as claimed): compress_image on a file whose lowercased name ends in
\* .jpg.avif or .png.avif reaches the encoder switch with a logical extension
\* the switch tests for, and selects the AVIF encoder.
C7_CompoundAvifSelectsAvif ==
    \A k \in CallIds :
        (/\ \/ endswith(lower(calls[k].path), ".jpg.avif")
            \/ endswith(lower(calls[k].path), ".png.avif")
         /\ calls[k].ext # NotComputed) =>
            /\ calls[k].ext \in {".jpg.avif", ".png.avif"}
            /\ calls[k].encoder = "AVIF"

\* C8: process_folder calls compress_image only on files whose logical
\* extension is in the supported set: never on a file with a compound suffix,
\* and the AVIF branch is never taken.
C8_OnlySupportedReachCompress ==
    \A k \in CallIds :
        LET name == lower(calls[k].path)
        IN  /\ extension_of[calls[k].path] \in supported_formats
            /\ \A c \in {".jpg.avif", ".jpg.webp", ".png.webp", ".png.avif"} :
                   ~endswith(name, c)
            /\ calls[k].encoder # "AVIF"

C8_Witness ==
    /\ pc = "returned"
    /\ calls # <<>>
    /\ \E p \in DOMAIN fs0 : endswith(p, ".jpg.avif") \/ endswith(p, ".png.avif")

\* C9: after the i-th candidate compressed + failed = i, each call having
\* incremented exactly one of the two counters; total_files is the number of
\* candidates the scan found; on success compressed + failed = total_files.
C9_CountersPartitionCalls ==
    pc \in {"loop", "returned"} /\ image_files # <<>> =>
        /\ stats.compressed + stats.failed = i
        /\ stats.compressed = Cardinality({k \in CallIds : calls[k].counted = "compressed"})
        /\ stats.failed = Cardinality({k \in CallIds : calls[k].counted = "failed"})
        /\ stats.total_files = Len(image_files)
        /\ stats.total_files = Cardinality(Candidates(folder, fs0))
        /\ (pc = "returned" /\ ret = TRUE) =>
               stats.compressed + stats.failed = stats.total_files

C9_Witness ==
    /\ pc = "returned"
    /\ ret = TRUE
    /\ stats.compressed >= 1
    /\ stats.failed >= 1

\* C10: when process_folder returns True, original_size is the sum of the
\* pre-run sizes of all candidates and compressed_size the sum of the final
\* sizes of the candidates compress_image succeeded on; the difference is the
\* bytes saved on disk plus the original sizes of the failed candidates.
C10_SizeAccounting ==
    (pc = "returned" /\ ret = TRUE) =>
        LET all    == Range(image_files)
            ok     == {calls[k].path : k \in {j \in CallIds : calls[j].ret}}
            failed == all \ ok
        IN  /\ stats.original_size = SumOver(fs0, all)
            /\ stats.compressed_size = SumOver(fs, ok)
            /\ saved(stats) = (SumOver(fs0, all) - SumOver(fs, all)) + SumOver(fs0, failed)

C10_Witness ==
    /\ pc = "returned"
    /\ ret = TRUE
    /\ \E k \in CallIds : calls[k].ret /\ Replaced(calls[k].path)
    /\ \E k \in CallIds : ~calls[k].ret /\ fs0[calls[k].path].size > 0
====
